---- MODULE Spec2Model ----
(***************************************************************************)
(* Model of the OMERO CLI plugin omero/plugins/idroi.py (IDROIControl):    *)
(* the "import" command that reads an HDF5 file (tables /Images and        *)
(* /Objects), joins its images with the images of a screen through a       *)
(* position key 'PlateName | Well | Field', and saves three point ROIs per *)
(* object row, one batch per image.                                        *)
(*                                                                         *)
(* Text is modelled as a sequence of one-character strings, so that        *)
(* parsing, int() and "%d" are computed character by character.            *)
(***************************************************************************)
EXTENDS Integers, Sequences, FiniteSets, TLC

\* ------------------------------------------------------------------ bounds
\* Longest /Images table, /Objects table and screen (projection result).
MaxImages == 2
MaxObjects == 2
MaxRemote == 2
\* Longest digit run of a well code drawn by InitKey.
MaxDigits == 3

\* ------------------------------------------------------------------- text
Digit == <<"0", "1", "2", "3", "4", "5", "6", "7", "8", "9">>

IsDigit(c) == \E i \in 1..10 : Digit[i] = c

DigitValue(c) == (CHOOSE i \in 1..10 : Digit[i] = c) - 1

UpperCase == <<"A","B","C","D","E","F","G","H","I","J","K","L","M",
               "N","O","P","Q","R","S","T","U","V","W","X","Y","Z">>

LowerCase == <<"a","b","c","d","e","f","g","h","i","j","k","l","m",
               "n","o","p","q","r","s","t","u","v","w","x","y","z">>

\* re.IGNORECASE, which parse() compiles its pattern with: two characters
\* match when their lower-case forms are equal.
ToLower ==
    [c \in {UpperCase[i] : i \in 1..26} |->
        LowerCase[CHOOSE i \in 1..26 : UpperCase[i] = c]]

Fold(c) == IF c \in DOMAIN ToLower THEN ToLower[c] ELSE c

EqualFold(a, b) == a = b \/ Fold(a) = Fold(b)

\* s[from..] = lit, ignoring case.
MatchesAt(s, from, lit) ==
    /\ from >= 1
    /\ from + Len(lit) - 1 <= Len(s)
    /\ \A k \in 1..Len(lit) : EqualFold(s[from + k - 1], lit[k])

\* The literal parts of the format "{} [Well {}, Field {}]".
LitWell == <<" ", "[", "W", "e", "l", "l", " ">>
LitField == <<",", " ", "F", "i", "e", "l", "d", " ">>
LitEnd == <<"]">>

\* The separator of the format "%s | %s | %s".
Sep == <<" ", "|", " ">>

\* Python's None where a tuple or an object is expected: the empty tuple.
None == <<>>

\* parse("{} [Well {}, Field {}]", name): every {} is the lazy group (.+?)
\* and the pattern is anchored at both ends.  <<i, j>> is a match when the
\* first group is name[1..i], the second name[i+8..j] and the third
\* name[j+9..Len-1].
ParseMatches(name) ==
    LET is == {i \in 1..Len(name) : MatchesAt(name, i + 1, LitWell)}
        js == {j \in 1..Len(name) : MatchesAt(name, j + 1, LitField)}
    IN { m \in is \X js :
           /\ m[2] >= m[1] + Len(LitWell) + 1
           /\ m[2] + Len(LitField) + 1 <= Len(name) - 1
           /\ MatchesAt(name, Len(name), LitEnd) }

\* The match the backtracking engine finds: the shortest first group, and
\* for it the shortest second group.  None when the name does not match.
parse(name) ==
    IF ParseMatches(name) = {} THEN None
    ELSE LET ms == ParseMatches(name)
             m == CHOOSE a \in ms :
                    \A b \in ms : \/ a[1] < b[1]
                                  \/ (a[1] = b[1] /\ a[2] <= b[2])
         IN << SubSeq(name, 1, m[1]),
               SubSeq(name, m[1] + Len(LitWell) + 1, m[2]),
               SubSeq(name, m[2] + Len(LitField) + 1, Len(name) - 1) >>

\* int(s) is defined on a non-empty run of digits (the alphabet of the
\* model holds no sign and no blank); anything else raises ValueError.
IntParses(s) == Len(s) > 0 /\ \A i \in 1..Len(s) : IsDigit(s[i])

RECURSIVE int(_)
int(s) ==
    IF Len(s) = 0 THEN 0
    ELSE 10 * int(SubSeq(s, 1, Len(s) - 1)) + DigitValue(s[Len(s)])

\* "%d" % n and "%s" % n for a non-negative integer n.
RECURSIVE FormatInt(_)
FormatInt(n) ==
    IF n < 10 THEN << Digit[n + 1] >>
    ELSE FormatInt(n \div 10) \o << Digit[(n % 10) + 1] >>

\* "%s | %s | %s" % (a, b, c)
FormatPosition(a, b, c) == a \o Sep \o b \o Sep \o c

\* ---------------------------------------------------------------- helpers
\* The keys of a dictionary (a function) and its update d[k] = v.
Put(d, k, v) == [x \in (DOMAIN d) \cup {k} |-> IF x = k THEN v ELSE d[x]]

EmptyDict == [x \in {} |-> 0]

RECURSIVE Flatten(_)
Flatten(ss) == IF Len(ss) = 0 THEN <<>> ELSE Head(ss) \o Flatten(Tail(ss))

Count(s, P(_)) == Cardinality({i \in 1..Len(s) : P(s[i])})

\* --------------------------------------------------- _mapImagePositionToId
\* RemotePosition with the well's digit run rewritten as a number, as the
\* file's side does.
RemotePositionNormalized(imgName) ==
    LET p == parse(imgName)
    IN FormatPosition(p[1], << p[2][1] >> \o FormatInt(int(Tail(p[2]))), p[3])

\* The key one projection entry is stored under: the three parsed groups,
\* copied as they are.
RemotePosition(imgName) ==
    LET p == parse(imgName) IN FormatPosition(p[1], p[2], p[3])

\* p is None for a name that does not match, and p[0] raises TypeError.
PositionToIdRaises(projection) ==
    \E i \in 1..Len(projection) : parse(projection[i].name) = None

RECURSIVE PositionToIdLoop(_, _)
PositionToIdLoop(imgdic, projection) ==
    IF Len(projection) = 0 THEN imgdic
    ELSE PositionToIdLoop(
             Put(imgdic, RemotePosition(Head(projection).name),
                 Head(projection).id),
             Tail(projection))

mapImagePositionToId(projection) == PositionToIdLoop(EmptyDict, projection)

\* ----------------------------------------------- _mapImageNumberToPosition
\* well[0] raises IndexError on an empty code, int(well[1:]) raises
\* ValueError unless the rest is a run of digits.
WellParses(well) == Len(well) >= 1 /\ IntParses(Tail(well))

\* NormalizeWell removing one leading zero only.
NormalizeWellOneZero(well) ==
    << well[1] >> \o (IF well[2] = "0" THEN SubSeq(well, 3, Len(well))
                      ELSE Tail(well))

\* wella + wellb
NormalizeWell(well) == << well[1] >> \o FormatInt(int(Tail(well)))

ImagePosition(row) ==
    FormatPosition(row.Image_Metadata_PlateID,
                   NormalizeWell(row.Image_Metadata_CPD_WELL_POSITION),
                   FormatInt(row.Image_Metadata_Site))

NumberToPositionRaises(imgs) ==
    \E i \in 1..Len(imgs) :
        ~WellParses(imgs[i].Image_Metadata_CPD_WELL_POSITION)

RECURSIVE NumberToPositionLoop(_, _)
NumberToPositionLoop(imgdict, imgs) ==
    IF Len(imgs) = 0 THEN imgdict
    ELSE NumberToPositionLoop(
             Put(imgdict, Head(imgs).ImageNumber, ImagePosition(Head(imgs))),
             Tail(imgs))

mapImageNumberToPosition(imgs) == NumberToPositionLoop(EmptyDict, imgs)

\* ------------------------------------------------------------ ROI building
PointI(x, y, text) ==
    [x |-> x, y |-> y, theZ |-> 0, theT |-> 0, textValue |-> text]

\* omero.model.RoiI() followed by addShape(point); no image yet.
RoiI(point) == [shapes |-> << point >>, image |-> None]

\* RowROIs with the Cell point reading the Nuclei columns.
RowROIsNucleiTwice(row) ==
    << RoiI(PointI(row.Nuclei_Location_Center_X,
                   row.Nuclei_Location_Center_Y, "Nucleus")),
       RoiI(PointI(row.Nuclei_Location_Center_X,
                   row.Nuclei_Location_Center_Y, "Cell")),
       RoiI(PointI(row.Cytoplasm_Location_Center_X,
                   row.Cytoplasm_Location_Center_Y, "Cytoplasm")) >>

RowROIs(row) ==
    << RoiI(PointI(row.Nuclei_Location_Center_X,
                   row.Nuclei_Location_Center_Y, "Nucleus")),
       RoiI(PointI(row.Cells_Location_Center_X,
                   row.Cells_Location_Center_Y, "Cell")),
       RoiI(PointI(row.Cytoplasm_Location_Center_X,
                   row.Cytoplasm_Location_Center_Y, "Cytoplasm")) >>

\* Where with a condition every row satisfies.
WhereAll(objs, imgNumber) == objs

\* objs.where("ImageNumber == n"): the matching rows, in table order.
Where(objs, imgNumber) ==
    SelectSeq(objs, LAMBDA row : row.ImageNumber = imgNumber)

BuildROIs(objs, imgNumber) ==
    LET rows == Where(objs, imgNumber)
    IN Flatten([i \in 1..Len(rows) |-> RowROIs(rows[i])])

\* roi.setImage(image) for every roi; the image field holds << image >>.
SetImage(rs, image) ==
    [i \in 1..Len(rs) |-> [rs[i] EXCEPT !.image = << image >>]]

\* --------------------------------------------------- mutants of _saveROIs
\* _saveROIs without its except clause: a failed call leaves the function.
SaveROIsNoExcept(rs, imgId, hasUpdateService, outcome, nr) ==
    LET image == [id |-> imgId]
        get(ok) == [op |-> "get", id |-> imgId, ok |-> ok, nr |-> nr]
        save(ok) == [op |-> "saveCollection", rois |-> SetImage(rs, image),
                     ok |-> ok, nr |-> nr]
    IN IF outcome = "getRaises"
       THEN [rois |-> rs, calls |-> << get(FALSE) >>, log |-> <<>>,
             raised |-> TRUE]
       ELSE IF hasUpdateService
       THEN IF outcome = "saveRaises"
            THEN [rois |-> SetImage(rs, image),
                  calls |-> << get(TRUE), save(FALSE) >>,
                  log |-> <<>>, raised |-> TRUE]
            ELSE [rois |-> SetImage(rs, image),
                  calls |-> << get(TRUE), save(TRUE) >>,
                  log |-> << [k |-> "Saved", n |-> Len(rs), id |-> imgId] >>,
                  raised |-> FALSE]
       ELSE [rois |-> SetImage(rs, image), calls |-> << get(TRUE) >>,
             log |-> << [k |-> "DryRun", n |-> Len(rs), id |-> imgId] >>,
             raised |-> FALSE]

\* _saveROIs trying a failed saveCollection a second time.
SaveROIsRetry(rs, imgId, hasUpdateService, outcome, nr) ==
    LET image == [id |-> imgId]
        get(ok) == [op |-> "get", id |-> imgId, ok |-> ok, nr |-> nr]
        save(ok) == [op |-> "saveCollection", rois |-> SetImage(rs, image),
                     ok |-> ok, nr |-> nr]
        warning == [k |-> "WarnSave", id |-> imgId]
    IN IF outcome = "getRaises"
       THEN [rois |-> rs, calls |-> << get(FALSE) >>,
             log |-> << warning >>, raised |-> FALSE]
       ELSE IF hasUpdateService
       THEN IF outcome = "saveRaises"
            THEN [rois |-> SetImage(rs, image),
                  calls |-> << get(TRUE), save(FALSE), save(TRUE) >>,
                  log |-> << [k |-> "Saved", n |-> Len(rs), id |-> imgId] >>,
                  raised |-> FALSE]
            ELSE [rois |-> SetImage(rs, image),
                  calls |-> << get(TRUE), save(TRUE) >>,
                  log |-> << [k |-> "Saved", n |-> Len(rs), id |-> imgId] >>,
                  raised |-> FALSE]
       ELSE [rois |-> SetImage(rs, image), calls |-> << get(TRUE) >>,
             log |-> << [k |-> "DryRun", n |-> Len(rs), id |-> imgId] >>,
             raised |-> FALSE]

\* --------------------------------------------------------------- _saveROIs
\* One call of _saveROIs(rois, imgId, queryService, updateService), the
\* update service being None in a dry run.  outcome says what the server
\* does: "ok", "getRaises" (queryService.get raises) or "saveRaises"
\* (updateService.saveCollection raises).  nr is the image number the batch
\* was built for; it is recorded with the calls and read by no code.
\* The result: the rois as the call leaves them, the remote calls made, the
\* lines printed, and whether an exception leaves the function.
SaveROIs(rs, imgId, hasUpdateService, outcome, nr) ==
    LET image == [id |-> imgId]
        get(ok) == [op |-> "get", id |-> imgId, ok |-> ok, nr |-> nr]
        save(ok) == [op |-> "saveCollection", rois |-> SetImage(rs, image),
                     ok |-> ok, nr |-> nr]
        warning == [k |-> "WarnSave", id |-> imgId]
    IN IF outcome = "getRaises"
       THEN [rois |-> rs, calls |-> << get(FALSE) >>,
             log |-> << warning >>, raised |-> FALSE]
       ELSE IF hasUpdateService
       THEN IF outcome = "saveRaises"
            THEN [rois |-> SetImage(rs, image),
                  calls |-> << get(TRUE), save(FALSE) >>,
                  log |-> << warning >>, raised |-> FALSE]
            ELSE [rois |-> SetImage(rs, image),
                  calls |-> << get(TRUE), save(TRUE) >>,
                  log |-> << [k |-> "Saved", n |-> Len(rs), id |-> imgId] >>,
                  raised |-> FALSE]
       ELSE [rois |-> SetImage(rs, image), calls |-> << get(TRUE) >>,
             log |-> << [k |-> "DryRun", n |-> Len(rs), id |-> imgId] >>,
             raised |-> FALSE]

\* PassesUpdateService ignoring --dry-run.
PassesUpdateServiceAlways(a) == TRUE

\* The update service importFile hands to _saveROIs: None in a dry run.
PassesUpdateService(a) == ~a.dry_run

\* The lines that end one iteration of the loop: the progress line and,
\* every 100 images, the estimate of the time left.
ProgressLines(d, t) ==
    << [k |-> "Progress", done |-> d, total |-> t, pct |-> (d * 100) \div t] >>
    \o (IF d % 100 = 0 THEN << [k |-> "ETR"] >> ELSE <<>>)

\* ------------------------------------------------------------------ state
VARIABLES
    args,         \* the parsed command line: command, dry_run
    screen,       \* the server: what the projection query returns, (id, name)
    file,         \* the HDF5 file on disk: nodes, Images, Objects, indexed
    file0,        \* the file as it was when the command started
    pc,           \* where the command is
    exc,          \* the exception in flight or propagated: type, at
    rc,           \* the exit code asked of ctx.die, 0 when none
    imgIds,       \* importFile: position key -> image id
    imgdict,      \* _mapImageNumberToPosition: the dictionary being filled
    imgNumbers,   \* importFile: image number -> position key
    total,        \* importFile: len(imgNumbers)
    done,         \* importFile: images processed so far
    remaining,    \* the keys "for imgNumber in imgNumbers" has yet to yield
    imgNumber,    \* the loop variable
    rois,         \* the list built for the current image
    openHandles,  \* the open handles on the file: handle number, mode
    opened,       \* how many handles were opened so far
    log,          \* the lines printed
    calls,        \* the calls made to the server for an image, in order
    built,        \* image number -> the rois built for it (before setImage)
    prev          \* the summary of the command run before this one, if any

vars == << args, screen, file, file0, pc, exc, rc, imgIds, imgdict,
           imgNumbers, total, done, remaining, imgNumber, rois, openHandles,
           opened, log, calls, built, prev >>

NoExc == [type |-> "None", at |-> "None"]

Raise(type, at) == [type |-> type, at |-> at]

\* ----------------------------------------------------------------- inputs
PlateX == <<"P", "l", "a", "t", "e", "X">>
WellA3 == <<"A", "3">>
WellA03 == <<"A", "0", "3">>
WellB10 == <<"B", "1", "0">>
WellAX == <<"A", "X">>

\* The name the server gives a screen's image.
FormatName(plate, well, field) ==
    plate \o LitWell \o well \o LitField \o field \o LitEnd

SeqsUpTo(S, n) == UNION {[1..k -> S] : k \in 0..n}

\* A projection result: image ids are unique, names are drawn from names.
Screens(names, n) ==
    { [i \in 1..Len(ns) |-> [id |-> 100 + i, name |-> ns[i]]] :
        ns \in SeqsUpTo(names, n) }

ImgNums == {1, 2}

ImageRows(wells, fields) ==
    [ImageNumber : ImgNums,
     Image_Metadata_PlateID : {PlateX},
     Image_Metadata_CPD_WELL_POSITION : wells,
     Image_Metadata_Site : fields]

\* The i-th row of /Objects: six distinct coordinates.
ObjectRow(nr, i) ==
    [ImageNumber |-> nr,
     Nuclei_Location_Center_X |-> 10 * i + 1,
     Nuclei_Location_Center_Y |-> 10 * i + 2,
     Cells_Location_Center_X |-> 10 * i + 3,
     Cells_Location_Center_Y |-> 10 * i + 4,
     Cytoplasm_Location_Center_X |-> 10 * i + 5,
     Cytoplasm_Location_Center_Y |-> 10 * i + 6]

ObjectTables(n) ==
    { [i \in 1..Len(nrs) |-> ObjectRow(nrs[i], i)] : nrs \in SeqsUpTo(ImgNums, n) }

\* The files: one with both tables, one without /Objects, one with neither.
Files(wells, fields, maxI, maxO) ==
    { [nodes |-> {"/Images", "/Objects"}, Images |-> imgs, Objects |-> objs,
       indexed |-> ix] :
        imgs \in SeqsUpTo(ImageRows(wells, fields), maxI),
        objs \in ObjectTables(maxO), ix \in BOOLEAN }
    \cup
    { [nodes |-> {"/Images"}, Images |-> imgs, Objects |-> <<>>,
       indexed |-> FALSE] :
        imgs \in SeqsUpTo(ImageRows(wells, fields), maxI) }
    \cup
    { [nodes |-> {}, Images |-> <<>>, Objects |-> <<>>, indexed |-> FALSE] }

Commands == {"", "import", "remove"}

\* The state a command starts in.
Start(a, f, scr, p) ==
    /\ args = a
    /\ screen = scr
    /\ file = f
    /\ file0 = f
    /\ pc = "process"
    /\ exc = NoExc
    /\ rc = 0
    /\ imgIds = EmptyDict
    /\ imgdict = EmptyDict
    /\ imgNumbers = EmptyDict
    /\ total = 0
    /\ done = 0
    /\ remaining = {}
    /\ imgNumber = 0
    /\ rois = <<>>
    /\ openHandles = {}
    /\ opened = 0
    /\ log = <<>>
    /\ calls = <<>>
    /\ built = EmptyDict
    /\ prev = p

NoPrev == [ran |-> FALSE]

SpecNames == {FormatName(PlateX, WellA3, <<"1">>)}

SpecWells == {WellA03, WellB10, WellAX}

\* The import command on every file and screen within the bounds; the
\* other two commands, which read neither, on one of them.
Init ==
    \E a \in [command : Commands, dry_run : BOOLEAN],
       f \in Files(SpecWells, {1}, MaxImages, MaxObjects),
       scr \in Screens(SpecNames, MaxRemote) :
        /\ a.command # "import" => (f.nodes = {} /\ scr = <<>>)
        /\ Start(a, f, scr, NoPrev)

\* ---------------------------------------------------------------- process
\* process(): no command given, ctx.die(100, ...) ends the command.
Die ==
    /\ pc = "process"
    /\ args.command = ""
    /\ rc' = 100
    /\ exc' = Raise("SystemExit", "die")
    /\ pc' = "raised"
    /\ UNCHANGED << args, screen, file, file0, imgIds, imgdict, imgNumbers,
                    total, done, remaining, imgNumber, rois, openHandles,
                    opened, log, calls, built, prev >>

\* remove(): prints that it is not implemented.
Remove ==
    /\ pc = "process"
    /\ args.command = "remove"
    /\ log' = Append(log, [k |-> "NotImplemented"])
    /\ pc' = "done"
    /\ UNCHANGED << args, screen, file, file0, exc, rc, imgIds, imgdict,
                    imgNumbers, total, done, remaining, imgNumber, rois,
                    openHandles, opened, calls, built, prev >>

\* ------------------------------------------------------------- importFile
\* The first line printed, the connection and the two services.
ImportStart ==
    /\ pc = "process"
    /\ args.command = "import"
    /\ log' = Append(log, [k |-> "Import"])
    /\ pc' = "query"
    /\ UNCHANGED << args, screen, file, file0, exc, rc, imgIds, imgdict,
                    imgNumbers, total, done, remaining, imgNumber, rois,
                    openHandles, opened, calls, built, prev >>

\* imgIds = self._mapImagePositionToId(...) and the line that follows.  The
\* projection query may fail, and a name that does not parse raises; both
\* leave importFile.
MapImagePositionToId ==
    /\ pc = "query"
    /\ \E ok \in BOOLEAN :
        IF ~ok
        THEN /\ exc' = Raise("ServerError", "projection")
             /\ pc' = "raised"
             /\ UNCHANGED << imgIds, log >>
        ELSE IF PositionToIdRaises(screen)
        THEN /\ exc' = Raise("TypeError", "parse")
             /\ pc' = "raised"
             /\ UNCHANGED << imgIds, log >>
        ELSE /\ imgIds' = mapImagePositionToId(screen)
             /\ log' = Append(log, [k |-> "Mapped",
                                    n |-> Cardinality(DOMAIN imgIds')])
             /\ pc' = "openImages"
             /\ UNCHANGED exc
    /\ UNCHANGED << args, screen, file, file0, rc, imgdict, imgNumbers, total,
                    done, remaining, imgNumber, rois, openHandles, opened,
                    calls, built, prev >>

\* open_file(args.file, mode): a new handle, or an error that leaves
\* importFile (the open is outside the try).
OpenFile(mode, next) ==
    \E ok \in BOOLEAN :
        IF ok
        THEN /\ opened' = opened + 1
             /\ openHandles' = openHandles \cup {[h |-> opened + 1, mode |-> mode]}
             /\ pc' = next
             /\ UNCHANGED exc
        ELSE /\ exc' = Raise("IOError", "open_file")
             /\ pc' = "raised"
             /\ UNCHANGED << opened, openHandles >>

\* CloseFile outside a finally clause: skipped when an exception is in
\* flight.
CloseFileOnSuccess ==
    openHandles' = IF exc = NoExc THEN {x \in openHandles : x.h # opened}
                   ELSE openHandles

\* h5f.close() in a finally clause: the handle opened last is closed.
CloseFile == openHandles' = {x \in openHandles : x.h # opened}

\* _mapImageNumberToPosition: h5f = open_file(args.file, "r")
OpenImages ==
    /\ pc = "openImages"
    /\ OpenFile("r", "scanImages")
    /\ UNCHANGED << args, screen, file, file0, rc, imgIds, imgdict, imgNumbers,
                    total, done, remaining, imgNumber, rois, log, calls,
                    built, prev >>

\* _mapImageNumberToPosition: the body of the try.
ScanImages ==
    /\ pc = "scanImages"
    /\ IF "/Images" \notin file.nodes
       THEN /\ exc' = Raise("NoSuchNodeError", "get_node /Images")
            /\ UNCHANGED imgdict
       ELSE IF NumberToPositionRaises(file.Images)
       THEN /\ exc' = Raise("ValueError", "well")
            /\ UNCHANGED imgdict
       ELSE /\ imgdict' = mapImageNumberToPosition(file.Images)
            /\ UNCHANGED exc
    /\ pc' = "closeImages"
    /\ UNCHANGED << args, screen, file, file0, rc, imgIds, imgNumbers, total,
                    done, remaining, imgNumber, rois, openHandles, opened,
                    log, calls, built, prev >>

\* _mapImageNumberToPosition: the finally clause and the return, then
\* importFile's total and its line.
CloseImages ==
    /\ pc = "closeImages"
    /\ CloseFile
    /\ IF exc # NoExc
       THEN /\ pc' = "raised"
            /\ UNCHANGED << imgNumbers, total, log >>
       ELSE /\ imgNumbers' = imgdict
            /\ total' = Cardinality(DOMAIN imgdict)
            /\ log' = Append(log, [k |-> "FoundImages", n |-> total'])
            /\ pc' = "openObjects"
    /\ UNCHANGED << args, screen, file, file0, exc, rc, imgIds, imgdict, done,
                    remaining, imgNumber, rois, opened, calls, built, prev >>

\* importFile: h5f = open_file(args.file, "a")
OpenObjects ==
    /\ pc = "openObjects"
    /\ OpenFile("a", "getObjects")
    /\ UNCHANGED << args, screen, file, file0, rc, imgIds, imgdict, imgNumbers,
                    total, done, remaining, imgNumber, rois, log, calls,
                    built, prev >>

\* importFile: objs = h5f.get_node("/Objects"), its line, done = 0.
GetObjects ==
    /\ pc = "getObjects"
    /\ IF "/Objects" \notin file.nodes
       THEN /\ exc' = Raise("NoSuchNodeError", "get_node /Objects")
            /\ pc' = "closeObjects"
            /\ UNCHANGED << log, done >>
       ELSE /\ log' = Append(log, [k |-> "FoundObjects", n |-> Len(file.Objects)])
            /\ done' = 0
            /\ pc' = "index"
            /\ UNCHANGED exc
    /\ UNCHANGED << args, screen, file, file0, rc, imgIds, imgdict, imgNumbers,
                    total, remaining, imgNumber, rois, openHandles, opened,
                    calls, built, prev >>

\* NeedsIndex with the test inverted.
NeedsIndexInverted(f) == f.indexed

\* Whether importFile creates the index: the column has none.
NeedsIndex(f) == ~f.indexed

\* importFile: the index on ImageNumber is created when the column has
\* none; the file was opened for appending and keeps it.  Creating it may
\* fail.  The loop then starts over the keys of imgNumbers.
EnsureIndex ==
    /\ pc = "index"
    /\ IF NeedsIndex(file)
       THEN \E ok \in BOOLEAN :
            /\ log' = Append(log, [k |-> "CreateIndex"])
            /\ IF ok
               THEN /\ file' = [file EXCEPT !.indexed = TRUE]
                    /\ pc' = "loop"
                    /\ remaining' = DOMAIN imgNumbers
                    /\ UNCHANGED exc
               ELSE /\ exc' = Raise("HDF5ExtError", "create_index")
                    /\ pc' = "closeObjects"
                    /\ UNCHANGED << file, remaining >>
       ELSE /\ pc' = "loop"
            /\ remaining' = DOMAIN imgNumbers
            /\ UNCHANGED << file, exc, log >>
    /\ UNCHANGED << args, screen, file0, rc, imgIds, imgdict, imgNumbers,
                    total, done, imgNumber, rois, openHandles, opened, calls,
                    built, prev >>

\* Whether importFile builds and saves rois for a position.
IsMapped(pos, ids) == pos \in DOMAIN ids

\* One iteration for an image whose position is in imgIds, up to the call
\* of _saveROIs: done += 1 and the rois of its rows.  The dictionary yields
\* its keys in an order of its own.  Reading the rows may fail.
BuildImage ==
    /\ pc = "loop"
    /\ \E nr \in remaining :
        /\ IsMapped(imgNumbers[nr], imgIds)
        /\ imgNumber' = nr
        /\ remaining' = remaining \ {nr}
        /\ done' = done + 1
        /\ \E ok \in BOOLEAN :
            IF ok
            THEN /\ rois' = BuildROIs(file.Objects, nr)
                 /\ built' = Put(built, nr, rois')
                 /\ pc' = "save"
                 /\ UNCHANGED exc
            ELSE /\ exc' = Raise("HDF5ExtError", "where")
                 /\ pc' = "closeObjects"
                 /\ UNCHANGED << rois, built >>
    /\ UNCHANGED << args, screen, file, file0, rc, imgIds, imgdict, imgNumbers,
                    total, openHandles, opened, log, calls, prev >>

\* The call of _saveROIs for the current image and the end of the
\* iteration.
SaveImage ==
    /\ pc = "save"
    /\ \E outcome \in {"ok", "getRaises", "saveRaises"} :
        LET r == SaveROIs(rois, imgIds[imgNumbers[imgNumber]],
                          PassesUpdateService(args), outcome, imgNumber)
        IN /\ rois' = r.rois
           /\ calls' = calls \o r.calls
           /\ IF r.raised
              THEN /\ exc' = Raise("ServerError", "_saveROIs")
                   /\ log' = log \o r.log
                   /\ pc' = "closeObjects"
              ELSE /\ log' = log \o r.log \o ProgressLines(done, total)
                   /\ pc' = "loop"
                   /\ UNCHANGED exc
    /\ UNCHANGED << args, screen, file, file0, rc, imgIds, imgdict, imgNumbers,
                    total, done, remaining, imgNumber, built, openHandles,
                    opened, prev >>

\* WarnUnmapped leaving the loop after its warning.
WarnUnmappedBreak ==
    /\ pc = "loop"
    /\ \E nr \in remaining :
        /\ ~IsMapped(imgNumbers[nr], imgIds)
        /\ imgNumber' = nr
        /\ remaining' = remaining \ {nr}
        /\ done' = done + 1
        /\ log' = Append(log, [k |-> "WarnMap", pos |-> imgNumbers[nr]])
        /\ pc' = "closeObjects"
    /\ UNCHANGED << args, screen, file, file0, exc, rc, imgIds, imgdict,
                    imgNumbers, total, rois, openHandles, opened, calls,
                    built, prev >>

\* One iteration for an image whose position is not in imgIds.
WarnUnmapped ==
    /\ pc = "loop"
    /\ \E nr \in remaining :
        /\ ~IsMapped(imgNumbers[nr], imgIds)
        /\ imgNumber' = nr
        /\ remaining' = remaining \ {nr}
        /\ done' = done + 1
        /\ log' = Append(log, [k |-> "WarnMap", pos |-> imgNumbers[nr]])
                  \o ProgressLines(done', total)
    /\ UNCHANGED << args, screen, file, file0, pc, exc, rc, imgIds, imgdict,
                    imgNumbers, total, rois, openHandles, opened, calls,
                    built, prev >>

\* The loop is over.
LoopEnd ==
    /\ pc = "loop"
    /\ remaining = {}
    /\ pc' = "closeObjects"
    /\ UNCHANGED << args, screen, file, file0, exc, rc, imgIds, imgdict,
                    imgNumbers, total, done, remaining, imgNumber, rois,
                    openHandles, opened, log, calls, built, prev >>

\* importFile: the finally clause; an exception in flight goes on.
CloseObjects ==
    /\ pc = "closeObjects"
    /\ CloseFile
    /\ pc' = IF exc # NoExc THEN "raised" ELSE "done"
    /\ UNCHANGED << args, screen, file, file0, exc, rc, imgIds, imgdict,
                    imgNumbers, total, done, remaining, imgNumber, rois,
                    opened, log, calls, built, prev >>

Next ==
    \/ Die
    \/ Remove
    \/ ImportStart
    \/ MapImagePositionToId
    \/ OpenImages
    \/ ScanImages
    \/ CloseImages
    \/ OpenObjects
    \/ GetObjects
    \/ EnsureIndex
    \/ BuildImage
    \/ SaveImage
    \/ WarnUnmapped
    \/ LoopEnd
    \/ CloseObjects

Spec == Init /\ [][Next]_vars

\* ------------------------------------------------- a second command line
\* What a finished command leaves for the comparison with the next one:
\* its mode, whether importFile ran to its end, the rois it built, the
\* number of lines its loop printed and of saveCollection calls it made.
LoopLine(e) == e.k \in {"Saved", "DryRun", "WarnSave", "WarnMap", "Progress", "ETR"}

IsSave(c) == c.op = "saveCollection"

Summary ==
    [ran |-> TRUE, dry_run |-> args.dry_run, complete |-> pc = "done",
     built |-> built, lines |-> Count(log, LoopLine),
     saves |-> Count(calls, IsSave)]

\* After a complete import the plugin is invoked again, on the same file and
\* the same screen, in the other mode.
Reinvoke ==
    /\ pc = "done"
    /\ args.command = "import"
    /\ ~prev.ran
    /\ prev' = Summary
    /\ args' = [args EXCEPT !.dry_run = ~args.dry_run]
    /\ file0' = file
    /\ pc' = "process"
    /\ exc' = NoExc
    /\ rc' = 0
    /\ imgIds' = EmptyDict
    /\ imgdict' = EmptyDict
    /\ imgNumbers' = EmptyDict
    /\ total' = 0
    /\ done' = 0
    /\ remaining' = {}
    /\ imgNumber' = 0
    /\ rois' = <<>>
    /\ openHandles' = {}
    /\ opened' = 0
    /\ log' = <<>>
    /\ calls' = <<>>
    /\ built' = EmptyDict
    /\ UNCHANGED << screen, file >>

NextPair == Next \/ Reinvoke

\* The files and screens of Init on which importFile can run to its end:
\* both tables are there and every well code is well-formed.
InitPair ==
    \E a \in [command : Commands, dry_run : BOOLEAN],
       f \in Files({WellA03, WellB10}, {1}, MaxImages, MaxObjects),
       scr \in Screens(SpecNames, MaxRemote) :
        /\ a.command # "import" => (f.nodes = {} /\ scr = <<>>)
        /\ a.command = "import" => f.nodes = {"/Images", "/Objects"}
        /\ Start(a, f, scr, NoPrev)

\* Two commands in a row.
SpecPair == InitPair /\ [][NextPair]_vars

\* ------------------------------------------------ inputs for the two keys
\* Well codes <letter><digits> with digit runs of up to MaxDigits digits.
DigitRuns(n) == UNION {[1..k -> {"0", "3"}] : k \in 1..n}

KeyWells == {<<"A">> \o d : d \in DigitRuns(MaxDigits)} \cup {WellB10}

KeyRemoteWells == {<<"A">> \o d : d \in DigitRuns(2)} \cup {WellB10}

\* A name whose fixed words are in lower case, and the names of the screen.
LowerName ==
    <<"P", " ", "[", "w", "e", "l", "l", " ", "A", "3", ",", " ",
      "f", "i", "e", "l", "d", " ", "2", "]">>

KeyNames ==
    { FormatName(PlateX, w, f) : w \in KeyRemoteWells, f \in {<<"2">>, <<"0", "2">>} }
    \cup {LowerName, <<"x">>}

\* One image on the server and one in the file, their names and well codes
\* drawn widely.
InitKey ==
    \E a \in [command : Commands, dry_run : BOOLEAN],
       f \in Files(KeyWells, {2}, 1, 1),
       scr \in Screens(KeyNames, 1) :
        /\ a.command # "import" => (f.nodes = {} /\ scr = <<>>)
        /\ Start(a, f, scr, NoPrev)

SpecKey == InitKey /\ [][Next]_vars

\* ============================================================== properties
Import == args.command = "import"

Terminal == pc \in {"done", "raised"}

\* importFile ran to its end.
Completed == Import /\ pc = "done"

\* Both dictionaries are built.
MapsBuilt ==
    pc \in {"openObjects", "getObjects", "index", "loop", "save",
            "closeObjects", "done"}

Mapped(nr) == imgNumbers[nr] \in DOMAIN imgIds

MappedNumbers == {nr \in DOMAIN imgNumbers : Mapped(nr)}

UnmappedNumbers == {nr \in DOMAIN imgNumbers : ~Mapped(nr)}

\* The rows of /Objects with image number nr, and the j-th of them.
RowsOf(nr) == {i \in 1..Len(file.Objects) : file.Objects[i].ImageNumber = nr}

NthRowOf(nr, j) ==
    file.Objects[CHOOSE i \in RowsOf(nr) :
                    Cardinality({m \in RowsOf(nr) : m <= i}) = j]

SavesOf(nr) ==
    {i \in 1..Len(calls) : calls[i].op = "saveCollection" /\ calls[i].nr = nr}

GetsOf(nr) == {i \in 1..Len(calls) : calls[i].op = "get" /\ calls[i].nr = nr}

IsPoint(roi, x, y, text) ==
    /\ Len(roi.shapes) = 1
    /\ roi.shapes[1].x = x
    /\ roi.shapes[1].y = y
    /\ roi.shapes[1].theZ = 0
    /\ roi.shapes[1].theT = 0
    /\ roi.shapes[1].textValue = text

\* rs holds, for each row of image nr in table order, the three points
\* Nucleus, Cell, Cytoplasm of that row.
ThreePerRow(rs, nr) ==
    /\ Len(rs) = 3 * Cardinality(RowsOf(nr))
    /\ \A j \in 1..Cardinality(RowsOf(nr)) :
        LET row == NthRowOf(nr, j)
        IN /\ IsPoint(rs[3 * j - 2], row.Nuclei_Location_Center_X,
                      row.Nuclei_Location_Center_Y, "Nucleus")
           /\ IsPoint(rs[3 * j - 1], row.Cells_Location_Center_X,
                      row.Cells_Location_Center_Y, "Cell")
           /\ IsPoint(rs[3 * j], row.Cytoplasm_Location_Center_X,
                      row.Cytoplasm_Location_Center_Y, "Cytoplasm")

\* C1: a dry run never calls saveCollection; and of two complete runs of
\* import on the same file tables and the same screen, one with --dry-run
\* and one without, both build the same rois for the same image numbers
\* and print the same number of lines in the loop, whatever remote calls
\* failed in either.
C1_DryRunEquivalence ==
    /\ args.dry_run => Count(calls, IsSave) = 0
    /\ (prev.ran /\ prev.complete /\ Completed /\ prev.dry_run # args.dry_run) =>
        /\ built = prev.built
        /\ Count(log, LoopLine) = prev.lines
        /\ prev.dry_run => prev.saves = 0

\* C1 witness: a complete dry run with a failed fetch, after a complete
\* real run that saved, over two images.
C1_Witness ==
    /\ prev.ran /\ prev.complete /\ Completed
    /\ ~prev.dry_run /\ args.dry_run
    /\ prev.saves > 0
    /\ \E i \in 1..Len(calls) : ~calls[i].ok
    /\ Cardinality(DOMAIN built) = 2
    /\ \E nr \in DOMAIN built : Len(built[nr]) > 0

\* C2: the rois built for an image number are exactly three per matching
\* row of /Objects, in the order Nucleus, Cell, Cytoplasm, each one point
\* with z 0, t 0, its label and the row's own column pair; and a complete
\* run has built them for every image number whose position is in imgIds.
C2_ThreeRoisPerRow ==
    /\ \A nr \in DOMAIN built : ThreePerRow(built[nr], nr)
    /\ Completed => DOMAIN built = MappedNumbers

\* C2 witness: a complete run that built six rois for an image of two rows.
C2_Witness ==
    /\ Completed
    /\ \E nr \in DOMAIN built : Len(built[nr]) = 6

\* ------------------------------------------------------- the position key
\* The digit run d without its leading zeros, one digit at least.
RECURSIVE StripZeros(_)
StripZeros(d) ==
    IF Len(d) > 1 /\ d[1] = "0" THEN StripZeros(Tail(d)) ELSE d

\* The digit run d without one leading zero, when it starts with one.
StripOneZero(d) == IF d[1] = "0" THEN Tail(d) ELSE d

\* The number a digit run denotes, by its leading-zero-free form.
SameNumber(d, e) == StripZeros(d) = StripZeros(e)

\* A remote well text and a file's well code denote the same well.
SameWell(w, v) == w[1] = v[1] /\ SameNumber(Tail(w), Tail(v))

KeyFields == {<<"2">>, <<"0", "2">>}

Key(plate, well, field) == plate \o Sep \o well \o Sep \o field

NameA03 == FormatName(PlateX, WellA03, <<"2">>)

\* C3, as claimed: once both dictionaries are built, a server image named
\* "{plate} [Well {well}, Field {field}]" and a row of /Images with the
\* same plate, the same well and the same field (written alike, "2") have
\* the same key, so the row's key is a key of imgIds; and the name "PlateX [Well A03, Field 2]"
\* is stored under "PlateX | A3 | 2".
C3_SymmetricKeys ==
    MapsBuilt =>
        /\ \A i \in 1..Len(screen), j \in 1..Len(file.Images) :
            \A w \in KeyRemoteWells :
                LET row == file.Images[j]
                IN (/\ screen[i].name = FormatName(PlateX, w, <<"2">>)
                    /\ row.Image_Metadata_PlateID = PlateX
                    /\ SameWell(w, row.Image_Metadata_CPD_WELL_POSITION)
                    /\ row.Image_Metadata_Site = 2)
                   => imgNumbers[row.ImageNumber] \in DOMAIN imgIds
        /\ (Len(screen) = 1 /\ screen[1].name = NameA03)
              => DOMAIN imgIds = {Key(PlateX, WellA3, <<"2">>)}

\* C3, amended: _mapImagePositionToId stores a name under its plate, well
\* and field text copied as they are (matched without regard to case),
\* while the file's key carries the well with its digit run rewritten as a
\* decimal number; so the row's key is a key of imgIds exactly when plate
\* and field agree and the remote well is the file's well without leading
\* zeros.  "PlateX [Well A03, Field 2]" is stored under "PlateX | A03 | 2".
C3_KeysJoinOnCanonicalWell ==
    MapsBuilt =>
        /\ \A i \in 1..Len(screen), j \in 1..Len(file.Images) :
            \A w \in KeyRemoteWells, f \in KeyFields :
                LET row == file.Images[j]
                    v == row.Image_Metadata_CPD_WELL_POSITION
                IN screen[i].name = FormatName(PlateX, w, f) =>
                    /\ DOMAIN imgIds = {Key(PlateX, w, f)}
                    /\ imgIds[Key(PlateX, w, f)] = screen[i].id
                    /\ imgNumbers[row.ImageNumber] \in DOMAIN imgIds
                        <=> /\ row.Image_Metadata_PlateID = PlateX
                            /\ w = << v[1] >> \o StripZeros(Tail(v))
                            /\ f = <<"2">> /\ row.Image_Metadata_Site = 2
        /\ (Len(screen) = 1 /\ screen[1].name = NameA03)
              => DOMAIN imgIds = {Key(PlateX, WellA03, <<"2">>)}
        /\ (Len(screen) = 1 /\ screen[1].name = LowerName)
              => DOMAIN imgIds = {Key(<<"P">>, WellA3, <<"2">>)}

\* C3 witness: a complete run with the server's image named
\* "PlateX [Well A03, Field 2]" and the file's row (PlateX, A03, 2), which
\* do not join.
C3_Witness ==
    /\ Completed
    /\ Len(screen) = 1 /\ screen[1].name = NameA03
    /\ Len(file.Images) = 1
    /\ file.Images[1].Image_Metadata_CPD_WELL_POSITION = WellA03
    /\ UnmappedNumbers # {}

\* The well part of the key of the row of /Images, given what the
\* normalization is said to do to a digit run.
KeyWellIs(strip(_)) ==
    \A j \in 1..Len(file.Images) :
        LET row == file.Images[j]
            v == row.Image_Metadata_CPD_WELL_POSITION
        IN imgNumbers[row.ImageNumber] =
               Key(row.Image_Metadata_PlateID, << v[1] >> \o strip(Tail(v)),
                   <<"2">>)

\* C4, as claimed: the key of a row of /Images carries the well code with
\* exactly one leading zero of its digit run removed when the run starts
\* with a zero, and unchanged otherwise.
C4_StripsOneZero == (MapsBuilt /\ Len(file.Images) = 1) => KeyWellIs(StripOneZero)

\* C4, amended: the key carries the well code with every leading zero of
\* its digit run removed, down to one digit at least ("A003" gives "A3",
\* "A0" and "A00" give "A0"), and unchanged when the run has none.
C4_StripsAllZeros == (MapsBuilt /\ Len(file.Images) = 1) => KeyWellIs(StripZeros)

\* C4 witness: a complete run on a well code with two leading zeros.
C4_Witness ==
    /\ Completed
    /\ Len(file.Images) = 1
    /\ file.Images[1].Image_Metadata_CPD_WELL_POSITION = <<"A", "0", "0", "3">>
    /\ imgNumbers[file.Images[1].ImageNumber] = Key(PlateX, WellA3, <<"2">>)

\* --------------------------------------------------------------- the loop
IsWarnSave(e) == e.k = "WarnSave"

IsWarnMap(e) == e.k = "WarnMap"

\* C5: a failed fetch or save for one image never leaves importFile as an
\* exception; it is answered by a warning line for that image and by no
\* further call for it; and a complete run has fetched the image of every
\* image number whose position is in imgIds, whatever failed before.
C5_SaveFailureContained ==
    /\ exc.at # "_saveROIs"
    /\ \A i \in 1..Len(calls) :
        ~calls[i].ok =>
            /\ \E n \in 1..Len(log) :
                /\ IsWarnSave(log[n])
                /\ log[n].id = imgIds[imgNumbers[calls[i].nr]]
            /\ \A j \in (i + 1)..Len(calls) : calls[j].nr # calls[i].nr
    /\ Count(log, IsWarnSave) = Count(calls, LAMBDA c : ~c.ok)
    /\ Completed => \A nr \in MappedNumbers : Cardinality(GetsOf(nr)) = 1

\* C5 witness: a complete run in which a call for one image failed and the
\* batch of another image was saved after it.
C5_Witness ==
    /\ Completed
    /\ \E i, j \in 1..Len(calls) :
        /\ i < j
        /\ ~calls[i].ok
        /\ calls[j].op = "saveCollection" /\ calls[j].ok
        /\ calls[j].nr # calls[i].nr

\* C6: an image number whose position is not in imgIds gets no rois and no
\* remote call; a complete run has printed one warning with its position
\* for each such number and has gone through every image number.
C6_UnmappedSkipped ==
    /\ \A nr \in UnmappedNumbers :
        /\ nr \notin DOMAIN built
        /\ GetsOf(nr) = {} /\ SavesOf(nr) = {}
    /\ Count(log, IsWarnMap) <= Cardinality(UnmappedNumbers)
    /\ Completed =>
        /\ done = total
        /\ total = Cardinality(DOMAIN imgNumbers)
        /\ Count(log, IsWarnMap) = Cardinality(UnmappedNumbers)
        /\ \A nr \in UnmappedNumbers :
            \E n \in 1..Len(log) : IsWarnMap(log[n]) /\ log[n].pos = imgNumbers[nr]

\* C6 witness: a complete run with an image number that is not mapped and,
\* processed after it, one whose batch was saved.
C6_Witness ==
    /\ Completed
    /\ UnmappedNumbers # {}
    /\ \E n \in 1..Len(log) :
        /\ IsWarnMap(log[n])
        /\ \E m \in (n + 1)..Len(log) : log[m].k = "Saved"

\* The rows of /Objects that yield nothing: their image number is not a
\* key of imgNumbers, or its position is not a key of imgIds.
SkippedRows ==
    {i \in 1..Len(file.Objects) :
        LET nr == file.Objects[i].ImageNumber
        IN nr \notin DOMAIN imgNumbers \/ ~Mapped(nr)}

RECURSIVE SumLen(_, _)
SumLen(d, keys) ==
    IF keys = {} THEN 0
    ELSE LET k == CHOOSE x \in keys : TRUE
         IN Len(d[k]) + SumLen(d, keys \ {k})

TotalBuilt == SumLen(built, DOMAIN built)

\* C7, as claimed: at the end of a run the skipped rows have contributed
\* no roi, and a counter of the run equals three times their number.
C7_SkippedCounter ==
    Completed =>
        /\ TotalBuilt = 3 * (Len(file.Objects) - Cardinality(SkippedRows))
        /\ \E counter \in {done, total} : counter = 3 * Cardinality(SkippedRows)

\* C7, amended: at the end of a run the skipped rows have contributed no
\* roi; the run keeps no count of them: its counters are done and total,
\* both the number of image numbers of /Images, and what it prints about
\* skipping is one warning per image number whose position is not mapped.
C7_SkippedRowsYieldNothing ==
    Completed =>
        /\ TotalBuilt = 3 * (Len(file.Objects) - Cardinality(SkippedRows))
        /\ done = Cardinality(DOMAIN imgNumbers)
        /\ total = Cardinality(DOMAIN imgNumbers)
        /\ Count(log, IsWarnMap) = Cardinality(UnmappedNumbers)

\* C7 witness: a complete run with a row whose image number is not in
\* /Images and a row whose image is not mapped.
C7_Witness ==
    /\ Completed
    /\ \E i \in SkippedRows : file.Objects[i].ImageNumber \notin DOMAIN imgNumbers
    /\ \E i \in SkippedRows : file.Objects[i].ImageNumber \in UnmappedNumbers

\* ---------------------------------------------------------------- the file
Running == Import /\ pc \notin {"process", "done", "raised"}

\* C8, as claimed: no handle is open when the command has ended, never two
\* at once, and one is open for as long as the command runs.
C8_HeldOpenThroughout ==
    /\ Terminal => openHandles = {}
    /\ Cardinality(openHandles) <= 1
    /\ Running => openHandles # {}

\* C8, amended: no handle is open when the command has ended, however it
\* ended, and never two at once; the file is opened at most twice, one
\* after the other: read-only for the scan of /Images, then for appending
\* from the opening of /Objects to the end of the loop; it is closed while
\* the screen is queried and between the two scans.
C8_HandlesClosed ==
    /\ Terminal => openHandles = {}
    /\ Cardinality(openHandles) <= 1
    /\ opened <= 2
    /\ pc \in {"scanImages", "closeImages"}
          <=> openHandles = {[h |-> 1, mode |-> "r"]}
    /\ pc \in {"getObjects", "index", "loop", "save", "closeObjects"}
          <=> openHandles = {[h |-> 2, mode |-> "a"]}

\* C8 witness: the rows of an image could not be read; the command has
\* ended with that error, and both handles it opened are closed.
C8_Witness ==
    /\ pc = "raised"
    /\ exc.at = "where"
    /\ opened = 2
    /\ openHandles = {}

\* C9, as claimed: a command that has ended has left the file as it was.
C9_FileUnchanged == Terminal => file = file0

\* C9, amended: the nodes and the rows of both tables are never changed;
\* the one change importFile makes to the file is the index on ImageNumber,
\* created when the column had none, in a dry run too, and present after
\* every complete run.
C9_OnlyIndexAdded ==
    /\ file.nodes = file0.nodes
    /\ file.Images = file0.Images
    /\ file.Objects = file0.Objects
    /\ file0.indexed => file.indexed
    /\ file.indexed # file0.indexed =>
        /\ pc \in {"loop", "save", "closeObjects", "done", "raised"}
        /\ \E n \in 1..Len(log) : log[n].k = "CreateIndex"
    /\ Completed => file.indexed

\* C9 witness: a complete dry run on a file whose column had no index.
C9_Witness ==
    /\ Completed
    /\ args.dry_run
    /\ ~file0.indexed
    /\ file.indexed
    /\ Len(file.Objects) > 0

\* --------------------------------------------------------------- batches
\* The batch of call i is the rois of its image number, each attached to
\* the image fetched just before for that number's identifier.
BatchOf(i) ==
    LET c == calls[i]
        id == imgIds[imgNumbers[c.nr]]
    IN /\ c.nr \in MappedNumbers
       /\ ThreePerRow(c.rois, c.nr)
       /\ \A k \in 1..Len(c.rois) : c.rois[k].image = << [id |-> id] >>
       /\ i > 1
       /\ calls[i - 1] = [op |-> "get", id |-> id, ok |-> TRUE, nr |-> c.nr]

MapsLogged ==
    /\ \E n \in 1..Len(log) : log[n].k = "Mapped"
    /\ \E n \in 1..Len(log) : log[n].k = "FoundImages"

\* C10, as claimed: in real mode every call comes after both dictionaries
\* are built, every batch is the rois of one image number attached to its
\* image, no image number has two batches, and a complete run has
\* submitted exactly one batch for every mapped image number.
C10_OneBatchPerImage ==
    ~args.dry_run =>
        /\ calls # <<>> => MapsLogged
        /\ \A nr \in DOMAIN imgNumbers :
            /\ Cardinality(SavesOf(nr)) <= 1
            /\ \A i \in SavesOf(nr) : BatchOf(i)
        /\ Completed => \A nr \in MappedNumbers : Cardinality(SavesOf(nr)) = 1

\* C10, amended: as claimed, but a complete run has submitted one batch
\* for a mapped image number when the fetch of its image succeeded, and
\* none when the fetch failed; an image number with no rows gets the empty
\* batch.
C10_OneBatchPerFetchedImage ==
    ~args.dry_run =>
        /\ calls # <<>> => MapsLogged
        /\ \A nr \in DOMAIN imgNumbers :
            /\ Cardinality(SavesOf(nr)) <= 1
            /\ \A i \in SavesOf(nr) : BatchOf(i)
        /\ \A i \in 1..Len(calls) : calls[i].nr \in MappedNumbers
        /\ Completed =>
            \A nr \in MappedNumbers :
                /\ Cardinality(GetsOf(nr)) = 1
                /\ Cardinality(SavesOf(nr)) =
                       IF \E i \in GetsOf(nr) : calls[i].ok THEN 1 ELSE 0

\* C10 witness: a complete real run that submitted the empty batch of an
\* image without rows and none for an image whose fetch failed.
C10_Witness ==
    /\ Completed
    /\ ~args.dry_run
    /\ \E nr \in MappedNumbers : \E i \in SavesOf(nr) : Len(calls[i].rois) = 0
    /\ Len(file.Objects) > 0
    /\ \E nr \in MappedNumbers : SavesOf(nr) = {} /\ GetsOf(nr) # {}

====
